---- MODULE Spec2Model ----
(***************************************************************************)
(* Model of the Telegram front end of bio_google_tg:                       *)
(*   src/telegram_bot.py  _split_message, _normalize_markdown_for_telegram, *)
(*                        new_chat, _typing_indicator, handle_message, main *)
(*   src/api_client.py    ask_api (its outcomes), extract_source_titles     *)
(*                                                                         *)
(* A text is a sequence of characters where the characters matter (the      *)
(* chunker, strip) and the sequence of the lengths of its lines where only  *)
(* lengths matter (the handler works on texts of thousands of characters). *)
(* LineLens maps the first representation to the second.                   *)
(***************************************************************************)
EXTENDS Naturals, Integers, Sequences, FiniteSets, TLC

\* ------------------------------------------------------------- bounds
\* Inbound messages of one behaviour of Spec.
MaxRequests == 2
\* Handlers of one conversation that may be in flight together.
MaxInFlight == 2
\* /new commands of one behaviour.
MaxResets == 1
\* Progress signals counted per request.
MaxSignals == 1
\* Inbound messages of one behaviour of SpecOne (one handler at a time).
MaxOneRequests == 2
\* Inbound messages of one behaviour of SpecSeq (one handler at a time).
MaxSeqRequests == 11
\* Longest text and largest limit given to the chunker in SpecChunk.
MaxTextLen == 5
MaxLimit == 3
\* Resources of a response and entries of its best_matches in SpecTitles.
MaxResources == 2
MaxMatches == 2
\* Pieces of a text given to the normalizer in SpecNormalize.
MaxTokens == 4

\* ---------------------------------------------------- program constants
\* telegram_bot.py:203
max_messages == 20
\* telegram_bot.py:201, normalized_answer[:4000]
AssistantCap == 4000
\* telegram_bot.py:190, limit=3900
ChunkLimit == 3900

NL == "\n"
Chars == {"a", "b", NL}

Min(a, b) == IF a < b THEN a ELSE b

RECURSIVE SeqsUpTo(_, _)
SeqsUpTo(S, n) ==
    IF n = 0 THEN {<<>>}
    ELSE LET shorter == SeqsUpTo(S, n - 1)
         IN  shorter \cup {Append(s, c) : s \in {t \in shorter : Len(t) = n - 1}, c \in S}

\* ------------------------------------------------------ str operations
\* str.split("\n"): the lines of a text, at least one.
RECURSIVE split(_)
split(s) ==
    IF \A i \in 1..Len(s) : s[i] # NL THEN <<s>>
    ELSE LET i == CHOOSE k \in 1..Len(s) : s[k] = NL /\ \A j \in 1..(k - 1) : s[j] # NL
         IN  <<SubSeq(s, 1, i - 1)>> \o split(SubSeq(s, i + 1, Len(s)))

\* "\n".join(lines)
RECURSIVE join(_)
join(lines) ==
    IF lines = <<>> THEN <<>>
    ELSE IF Len(lines) = 1 THEN lines[1]
    ELSE lines[1] \o <<NL>> \o join(Tail(lines))

\* The lengths of the lines of a text.
LineLens(s) == [i \in DOMAIN split(s) |-> Len(split(s)[i])]

\* len() of a text given by the lengths of its lines.
RECURSIVE TextLen(_)
TextLen(lens) ==
    IF Len(lens) = 1 THEN lens[1] ELSE lens[1] + 1 + TextLen(Tail(lens))

\* text[:n] of a text given by the lengths of its lines.
RECURSIVE Prefix(_, _)
Prefix(lens, n) ==
    IF Len(lens) = 1 \/ n <= Head(lens) THEN <<Min(Head(lens), n)>>
    ELSE <<Head(lens)>> \o Prefix(Tail(lens), n - Head(lens) - 1)

\* -------------------------------------------------------- _split_message
\* The loop of _split_message works on the lines' lengths alone: `current`
\* holds the indices of the lines collected, `parts` the closed groups of
\* indices (a group closed while `current` was empty is the join of no line).
EmptyPack == [parts |-> <<>>, current |-> <<>>, current_len |-> 0]

\* telegram_bot.py:34-45, one iteration for line number i of length n.
SplitStepNoSeparator(st, i, n, limit) ==
    LET add_len == n
    IN  IF st.current_len + add_len > limit
        THEN [parts |-> Append(st.parts, st.current), current |-> <<i>>, current_len |-> n]
        ELSE IF st.current # <<>>
             THEN [st EXCEPT !.current = Append(@, i), !.current_len = @ + add_len]
             ELSE [st EXCEPT !.current = <<i>>, !.current_len = n]

SplitStep(st, i, n, limit) ==
    LET add_len == n + (IF st.current # <<>> THEN 1 ELSE 0)
    IN  IF st.current_len + add_len > limit
        THEN [parts |-> Append(st.parts, st.current), current |-> <<i>>, current_len |-> n]
        ELSE IF st.current # <<>>
             THEN [st EXCEPT !.current = Append(@, i), !.current_len = @ + add_len]
             ELSE [st EXCEPT !.current = <<i>>, !.current_len = n]

\* telegram_bot.py:33-45, the loop over the first k lines.
RECURSIVE SplitLoop(_, _, _)
SplitLoop(lens, k, limit) ==
    IF k = 0 THEN EmptyPack
    ELSE SplitStep(SplitLoop(lens, k - 1, limit), k, lens[k], limit)

\* telegram_bot.py:30-48: the groups of line indices, one per returned part.
PackLinesNoFlush(lens, limit) == SplitLoop(lens, Len(lens), limit).parts

PackLines(lens, limit) ==
    LET st == SplitLoop(lens, Len(lens), limit)
    IN  IF st.current # <<>> THEN Append(st.parts, st.current) ELSE st.parts

\* telegram_bot.py:26-48 on a text of characters.
_split_message(s, limit) ==
    IF Len(s) <= limit THEN <<s>>
    ELSE LET lines  == split(s)
             groups == PackLines(LineLens(s), limit)
         IN  [g \in DOMAIN groups |->
                 join([k \in DOMAIN groups[g] |-> lines[groups[g][k]]])]

\* telegram_bot.py:26-48 on a text given by the lengths of its lines: each
\* part again as the lengths of its lines (the join of no line is the empty
\* text, one line of length 0).
SplitLens(lens, limit) ==
    IF TextLen(lens) <= limit THEN <<lens>>
    ELSE LET groups == PackLines(lens, limit)
         IN  [g \in DOMAIN groups |->
                 IF groups[g] = <<>> THEN <<0>>
                 ELSE [k \in DOMAIN groups[g] |-> lens[groups[g][k]]]]

\* ------------------------------------------------------------- state
VARIABLES
    chat_data,          \* context.chat_data.get("history"): 0 (no such key) or a list object
    lists,              \* the list objects: object -> its turns
    nreq,               \* inbound messages so far
    nresets,            \* /new commands so far
    update,             \* the update dispatched and not yet handled: <<>> or <<its text>>
    pc,                 \* per handler: where handle_message stands
    req,                \* per handler: the number of its inbound message
    user_text,          \* per handler: update.message.text.strip()
    history,            \* per handler: the local `history` (a list object, 0: unbound)
    resp,               \* per handler: what ask_api returned
    normalized_answer,  \* per handler: the lengths of normalized_answer's lines
    chunks,             \* per handler: _split_message(normalized_answer, limit=3900)
    idx,                \* per handler: the chunk the for loop stands at
    sent,               \* per handler: the messages the chat received from it, in order
    calls,              \* per handler: requests posted to the API (api_client.py:76)
    typing_task,        \* per handler: the state of its _typing_indicator task
    signals,            \* per handler: chat actions its task sent (counted to MaxSignals)
    exc,                \* per handler: an exception is propagating
    before,             \* per handler: the turns of `history` when it was bound (line 144-146)
    text,               \* the chunker's input text (SpecChunk)
    limit,              \* the chunker's input limit (SpecChunk)
    parts,              \* the chunker's result (SpecChunk)
    split_pc,           \* the chunker's call (SpecChunk): "idle", "called", "returned"
    response_json,      \* extract_source_titles' response (SpecTitles)
    max_titles,         \* extract_source_titles' max_titles: <<>> (None) or <<n>>
    titles,             \* extract_source_titles' result (SpecTitles)
    titles_pc,          \* extract_source_titles' call: "idle", "called", "returned"
    markdown,           \* _normalize_markdown_for_telegram's input (SpecNormalize)
    normalized,         \* _normalize_markdown_for_telegram's result (SpecNormalize)
    normalize_pc        \* the normalizer's call: "idle", "called", "returned"

hvars == <<chat_data, lists, nreq, nresets, update, pc, req, user_text, history, resp,
           normalized_answer, chunks, idx, sent, calls, typing_task, signals, exc, before>>
cvars == <<text, limit, parts, split_pc>>
tvars == <<response_json, max_titles, titles, titles_pc>>
nvars == <<markdown, normalized, normalize_pc>>
vars == <<hvars, cvars, tvars, nvars>>

Slots == 1..MaxInFlight
\* One list for chat_data, one per handler, one being created.
Objs == 1..(MaxInFlight + 2)

\* ---------------------------------------------------------- messages
\* telegram_bot.py:154, 160, 210: the fixed texts, by their lengths.
FriendlyFailure == [kind |-> "friendly", lens |-> <<66>>]
GenericFailure == [kind |-> "generic", lens |-> <<58>>]
NoAnswerText == <<70>>
\* telegram_bot.py:180-184: "".join of ["", "", "*Sources:*", "- <title>", ...]
\* appended to the answer: an empty line, the heading, one line per title.
RECURSIVE TitleLines(_)
TitleLines(ts) ==
    IF ts = <<>> THEN <<>> ELSE <<2 + Head(ts)>> \o TitleLines(Tail(ts))
SourcesBlock(ts) == <<0, 10>> \o TitleLines(ts)

\* What ask_api gives back (api_client.py:84-90, 101, 103, 107), or raises.
NoResp == [kind |-> "none", status |-> "", answer |-> <<>>, titles |-> <<>>]
ErrorResp(st) == [kind |-> "error", status |-> st, answer |-> <<>>, titles |-> <<>>]
OkResp(a, t) == [kind |-> "ok", status |-> "200", answer |-> a, titles |-> t]
RaiseResp == [kind |-> "raise", status |-> "", answer |-> <<>>, titles |-> <<>>]

\* The answers of a successful response, by the lengths of the lines of the
\* normalized answer (<<>>: no answer.answer): a short one, one of two lines
\* that needs two chunks and is cut by the cap, one single line over the limit;
\* and the titles extract_source_titles finds, by their escaped lengths.
OkResponses ==
    {OkResp(<<5>>, <<>>), OkResp(<<3000, 1000>>, <<>>), OkResp(<<3950>>, <<>>),
     OkResp(<<>>, <<>>), OkResp(<<>>, <<3>>)}
Responses ==
    {ErrorResp(st) : st \in {"500", "timeout", "network"}} \cup OkResponses \cup {RaiseResp}

\* update.message.text: missing or empty (<<>>), blank, or a question.
InboundTexts == {<<>>, <<" ">>, <<"q">>, <<" ", "q">>}

\* str.strip()
NoStrip(s) == s
RECURSIVE lstrip(_)
lstrip(s) == IF s # <<>> /\ Head(s) = " " THEN lstrip(Tail(s)) ELSE s
RECURSIVE rstrip(_)
rstrip(s) ==
    IF s # <<>> /\ s[Len(s)] = " " THEN rstrip(SubSeq(s, 1, Len(s) - 1)) ELSE s
strip(s) == rstrip(lstrip(s))

UserTurn(r, t) == [role |-> "user", req |-> r, content |-> LineLens(t)]
AssistantTurn(r, lens) == [role |-> "assistant", req |-> r, content |-> lens]

\* history[-n:]
LastN(h, n) == IF Len(h) > n THEN SubSeq(h, Len(h) - n + 1, Len(h)) ELSE h

\* ------------------------------------------------------- list objects
Live(cd, h) == ({cd} \cup {h[s] : s \in Slots}) \ {0}
Fresh(cd, h) == CHOOSE o \in Objs : o \notin Live(cd, h) /\ \A p \in Objs \ Live(cd, h) : o <= p
\* Objects nothing refers to are gone.
Collect(l, cd, h) == [o \in Objs |-> IF o \in Live(cd, h) THEN l[o] ELSE <<>>]

InFlight(s) == pc[s] \notin {"idle", "returned", "raised"}
FreeSlot == CHOOSE s \in Slots : ~InFlight(s) /\ \A p \in Slots : ~InFlight(p) => s <= p

\* ---------------------------------------------------------------- Init
HInit ==
    /\ chat_data = 0
    /\ lists = [o \in Objs |-> <<>>]
    /\ nreq = 0
    /\ nresets = 0
    /\ pc = [s \in Slots |-> "idle"]
    /\ req = [s \in Slots |-> 0]
    /\ user_text = [s \in Slots |-> <<>>]
    /\ history = [s \in Slots |-> 0]
    /\ resp = [s \in Slots |-> NoResp]
    /\ normalized_answer = [s \in Slots |-> <<>>]
    /\ chunks = [s \in Slots |-> <<>>]
    /\ idx = [s \in Slots |-> 0]
    /\ sent = [s \in Slots |-> <<>>]
    /\ calls = [s \in Slots |-> 0]
    /\ update = <<>>
    /\ typing_task = [s \in Slots |-> "none"]
    /\ signals = [s \in Slots |-> 0]
    /\ exc = [s \in Slots |-> FALSE]
    /\ before = [s \in Slots |-> <<>>]

CIdle ==
    /\ text = <<>>
    /\ limit = 0
    /\ parts = <<>>
    /\ split_pc = "idle"

\* extract_source_titles has not been called.
NoResponse ==
    [shape |-> "none", resources |-> <<>>, matches_is_list |-> TRUE, best_matches |-> <<>>]
TIdle ==
    /\ response_json = NoResponse
    /\ max_titles = <<>>
    /\ titles = <<>>
    /\ titles_pc = "idle"

\* _normalize_markdown_for_telegram has not been called.
NIdle ==
    /\ markdown = <<>>
    /\ normalized = <<>>
    /\ normalize_pc = "idle"

Init == HInit /\ CIdle /\ TIdle /\ NIdle

\* ------------------------------------------------------ handle_message
\* telegram_bot.py:212-213: every way out of the try block runs the finally
\* clause, which cancels the task (no effect on a task that has ended) and
\* then awaits it.
LeaveNoFinally(task) == [pc |-> "returned", typing_task |-> task]

Leave(task) ==
    [pc |-> "finally",
     typing_task |-> IF task = "running" THEN "cancelling" ELSE task]

\* main (telegram_bot.py:220-227): a text message of the chat arrives and is
\* dispatched to handle_message; the handlers of one chat run concurrently.
\* A missing text and an empty one are both <<>> (line 134 tells them not apart).
receive_update(t, maxInFlight, maxRequests) ==
    /\ update = <<>>
    /\ nreq < maxRequests
    /\ Cardinality({s \in Slots : InFlight(s)}) < maxInFlight
    /\ update' = <<t>>
    /\ UNCHANGED <<chat_data, lists, nreq, nresets, pc, req, user_text, history, resp,
                   normalized_answer, chunks, idx, sent, calls, typing_task, signals,
                   exc, before, cvars, tvars, nvars>>

\* telegram_bot.py:134-150 (to the await of ask_api) for the dispatched message,
\* of text t.
handle_message(t, maxInFlight, maxRequests) ==
    /\ update = <<t>>
    /\ nreq < maxRequests
    /\ Cardinality({s \in Slots : InFlight(s)}) < maxInFlight
    /\ update' = <<>>
    /\ nreq' = nreq + 1
    /\ UNCHANGED <<chat_data, nresets, cvars, tvars, nvars>>
    /\ IF strip(t) = <<>>
       THEN UNCHANGED <<lists, pc, req, user_text, history, resp, normalized_answer,
                        chunks, idx, sent, calls, typing_task, signals, exc, before>>
       ELSE LET s == FreeSlot
                r == nreq + 1
                h == IF chat_data # 0 THEN chat_data ELSE Fresh(chat_data, history)
                old == IF chat_data # 0 THEN lists[chat_data] ELSE <<>>
                bound == [history EXCEPT ![s] = h]
            IN  /\ pc' = [pc EXCEPT ![s] = "ask_api"]
                /\ req' = [req EXCEPT ![s] = r]
                /\ user_text' = [user_text EXCEPT ![s] = strip(t)]
                /\ typing_task' = [typing_task EXCEPT ![s] = "running"]
                /\ signals' = [signals EXCEPT ![s] = 0]
                /\ history' = bound
                /\ before' = [before EXCEPT ![s] = old]
                /\ lists' = Collect([lists EXCEPT ![h] = Append(old, UserTurn(r, strip(t)))],
                                    chat_data, bound)
                /\ calls' = [calls EXCEPT ![s] = 0]
                /\ resp' = [resp EXCEPT ![s] = NoResp]
                /\ normalized_answer' = [normalized_answer EXCEPT ![s] = <<>>]
                /\ chunks' = [chunks EXCEPT ![s] = <<>>]
                /\ idx' = [idx EXCEPT ![s] = 0]
                /\ sent' = [sent EXCEPT ![s] = <<>>]
                /\ exc' = [exc EXCEPT ![s] = FALSE]

\* telegram_bot.py:158-160, 169-186: the text to send, by its lines' lengths.
FinalText(r) ==
    LET answer == IF r.answer # <<>> THEN r.answer ELSE NoAnswerText
    IN  IF r.titles # <<>>
        THEN SubSeq(answer, 1, Len(answer) - 1)
             \o <<answer[Len(answer)]>> \o SourcesBlock(r.titles)
        ELSE answer

\* telegram_bot.py:151: isinstance(resp, dict) and resp.get("error")
ErrorFieldIgnored(r) == FALSE

IsStructuredError(r) == r.kind = "error"

PostsWithRetry(r) == IF r.kind = "error" THEN 2 ELSE 1
\* api_client.py:69-103: one call of ask_api posts one request, whatever
\* comes back; there is no loop around session.post.
Posts(r) == 1

\* ask_api (api_client.py:51-107) ends with r; telegram_bot.py:150-190 to the
\* next await.
ask_api_done(s, r) ==
    /\ pc[s] = "ask_api"
    /\ resp' = [resp EXCEPT ![s] = r]
    /\ calls' = [calls EXCEPT ![s] = @ + Posts(r)]
    /\ IF IsStructuredError(r)
       THEN /\ pc' = [pc EXCEPT ![s] = "reply_error"]
            /\ UNCHANGED <<normalized_answer, chunks, idx>>
       ELSE IF r.kind = "raise"
       THEN /\ pc' = [pc EXCEPT ![s] = "except"]
            /\ UNCHANGED <<normalized_answer, chunks, idx>>
       ELSE /\ pc' = [pc EXCEPT ![s] = "send_markdown"]
            /\ normalized_answer' = [normalized_answer EXCEPT ![s] = FinalText(r)]
            /\ chunks' = [chunks EXCEPT ![s] = SplitLens(FinalText(r), ChunkLimit)]
            /\ idx' = [idx EXCEPT ![s] = 1]
    /\ UNCHANGED <<chat_data, lists, nreq, nresets, req, user_text, history, sent,
                   typing_task, signals, exc, before, update, cvars, tvars, nvars>>

\* telegram_bot.py:153-156: the reply to a structured error, then return.
reply_error(s, ok) ==
    /\ pc[s] = "reply_error"
    /\ IF ok
       THEN /\ sent' = [sent EXCEPT ![s] = Append(@, [msg |-> FriendlyFailure, mode |-> "plain"])]
            /\ pc' = [pc EXCEPT ![s] = Leave(typing_task[s]).pc]
            /\ typing_task' = [typing_task EXCEPT ![s] = Leave(@).typing_task]
       ELSE /\ pc' = [pc EXCEPT ![s] = "except"]
            /\ UNCHANGED <<sent, typing_task>>
    /\ UNCHANGED <<chat_data, lists, nreq, nresets, req, user_text, history, resp,
                   normalized_answer, chunks, idx, calls, signals, exc, before, update, cvars, tvars, nvars>>

\* telegram_bot.py:200-206 and the way out: after the last chunk the assistant
\* turn is appended to the list `history` names, a list over max_messages turns
\* is replaced by a new list of its last turns, and chat_data is bound to it.
SaveAndLeave(s) ==
    LET h == history[s]
        turn == AssistantTurn(req[s], Prefix(normalized_answer[s], AssistantCap))
        appended == [lists EXCEPT ![h] = Append(@, turn)]
        over == Len(appended[h]) > max_messages
        h2 == IF over THEN Fresh(chat_data, history) ELSE h
        sliced == IF over THEN [appended EXCEPT ![h2] = LastN(appended[h], max_messages)]
                  ELSE appended
        bound == [history EXCEPT ![s] = h2]
    IN  /\ history' = bound
        /\ chat_data' = h2
        /\ lists' = Collect(sliced, h2, bound)
        /\ pc' = [pc EXCEPT ![s] = Leave(typing_task[s]).pc]
        /\ typing_task' = [typing_task EXCEPT ![s] = Leave(@).typing_task]
        /\ UNCHANGED idx

StickyPlain(prev) == IF prev = "send_plain" THEN "send_plain" ELSE "send_markdown"
\* telegram_bot.py:190-196: every iteration starts with the Markdown attempt,
\* however the chunk before it (prev: where its delivery stood) was sent.
NextAttempt(prev) == "send_markdown"

\* telegram_bot.py:190: the for loop goes to the next chunk, or ends.
NextChunk(s) ==
    IF idx[s] < Len(chunks[s])
    THEN /\ idx' = [idx EXCEPT ![s] = @ + 1]
         /\ pc' = [pc EXCEPT ![s] = NextAttempt(pc[s])]
         /\ UNCHANGED <<chat_data, lists, history, typing_task>>
    ELSE SaveAndLeave(s)

ChunkMsg(s) == [kind |-> "chunk", lens |-> chunks[s][idx[s]]]

\* telegram_bot.py:191-197: a chunk sent as Markdown: delivered, rejected
\* (BadRequest), or failed otherwise.
send_markdown(s, outcome) ==
    /\ pc[s] = "send_markdown"
    /\ IF outcome = "ok"
       THEN /\ sent' = [sent EXCEPT ![s] = Append(@, [msg |-> ChunkMsg(s), mode |-> "markdown"])]
            /\ NextChunk(s)
       ELSE /\ pc' = [pc EXCEPT ![s] = IF outcome = "BadRequest" THEN "send_plain" ELSE "except"]
            /\ UNCHANGED <<sent, chat_data, lists, history, typing_task, idx>>
    /\ UNCHANGED <<nreq, nresets, req, user_text, resp, normalized_answer, chunks,
                   calls, signals, exc, before, update, cvars, tvars, nvars>>

\* telegram_bot.py:198: the rejected chunk sent again as plain text.
send_plain(s, ok) ==
    /\ pc[s] = "send_plain"
    /\ IF ok
       THEN /\ sent' = [sent EXCEPT ![s] = Append(@, [msg |-> ChunkMsg(s), mode |-> "plain"])]
            /\ NextChunk(s)
       ELSE /\ pc' = [pc EXCEPT ![s] = "except"]
            /\ UNCHANGED <<sent, chat_data, lists, history, typing_task, idx>>
    /\ UNCHANGED <<nreq, nresets, req, user_text, resp, normalized_answer, chunks,
                   calls, signals, exc, before, update, cvars, tvars, nvars>>

\* telegram_bot.py:207-211: the except clause sends the generic text; when
\* that send fails too, its exception propagates.
reply_generic(s, ok) ==
    /\ pc[s] = "except"
    /\ sent' = [sent EXCEPT ![s] =
                   IF ok THEN Append(@, [msg |-> GenericFailure, mode |-> "plain"]) ELSE @]
    /\ exc' = [exc EXCEPT ![s] = ~ok]
    /\ pc' = [pc EXCEPT ![s] = Leave(typing_task[s]).pc]
    /\ typing_task' = [typing_task EXCEPT ![s] = Leave(@).typing_task]
    /\ UNCHANGED <<chat_data, lists, nreq, nresets, req, user_text, history, resp,
                   normalized_answer, chunks, idx, calls, signals, before, update, cvars, tvars, nvars>>

\* telegram_bot.py:214-217: await typing_task. A cancelled task ends with
\* CancelledError, which is caught; a task that had failed raises its error.
await_typing_task(s) ==
    /\ pc[s] = "finally"
    /\ typing_task' = [typing_task EXCEPT ![s] = IF @ = "cancelling" THEN "cancelled" ELSE @]
    /\ pc' = [pc EXCEPT ![s] =
                 IF exc[s] \/ typing_task[s] = "failed" THEN "raised" ELSE "returned"]
    /\ history' = [history EXCEPT ![s] = 0]
    /\ lists' = Collect(lists, chat_data, [history EXCEPT ![s] = 0])
    \* the handler's frame is gone
    /\ req' = [req EXCEPT ![s] = 0]
    /\ user_text' = [user_text EXCEPT ![s] = <<>>]
    /\ resp' = [resp EXCEPT ![s] = NoResp]
    /\ normalized_answer' = [normalized_answer EXCEPT ![s] = <<>>]
    /\ chunks' = [chunks EXCEPT ![s] = <<>>]
    /\ idx' = [idx EXCEPT ![s] = 0]
    /\ sent' = [sent EXCEPT ![s] = <<>>]
    /\ calls' = [calls EXCEPT ![s] = 0]
    /\ signals' = [signals EXCEPT ![s] = 0]
    /\ exc' = [exc EXCEPT ![s] = FALSE]
    /\ before' = [before EXCEPT ![s] = <<>>]
    /\ UNCHANGED <<chat_data, nreq, nresets, update, cvars, tvars, nvars>>

\* ----------------------------------------------------- _typing_indicator
\* telegram_bot.py:128-130: one more chat action from a running task.
typing_indicator(s) ==
    /\ typing_task[s] = "running"
    /\ signals[s] < MaxSignals
    /\ signals' = [signals EXCEPT ![s] = @ + 1]
    /\ UNCHANGED <<chat_data, lists, nreq, nresets, pc, req, user_text, history, resp,
                   normalized_answer, chunks, idx, sent, calls, typing_task, exc, before, update, cvars, tvars, nvars>>

\* telegram_bot.py:129: send_chat_action raises and the task ends with it.
typing_indicator_fails(s) ==
    /\ typing_task[s] = "running"
    /\ typing_task' = [typing_task EXCEPT ![s] = "failed"]
    /\ UNCHANGED <<chat_data, lists, nreq, nresets, pc, req, user_text, history, resp,
                   normalized_answer, chunks, idx, sent, calls, signals, exc, before, update, cvars, tvars, nvars>>

\* --------------------------------------------------------------- new_chat
\* telegram_bot.py:120-123: chat_data["history"] is bound to a new empty list.
new_chat ==
    /\ nresets < MaxResets
    /\ nresets' = nresets + 1
    /\ LET h == Fresh(chat_data, history)
       IN  /\ chat_data' = h
           /\ lists' = Collect([lists EXCEPT ![h] = <<>>], h, history)
    /\ UNCHANGED <<nreq, pc, req, user_text, history, resp, normalized_answer, chunks,
                   idx, sent, calls, typing_task, signals, exc, before, update, cvars, tvars, nvars>>

\* ------------------------------------------------------ source titles
\* api_client.py:131-176. A JSON value is a string (its characters) or a value
\* of another type; a JSON object is the sequence of its items, in order.
Str(v) == [t |-> "str", v |-> v]
NotStr == [t |-> "other", v |-> <<>>]

Digits == <<"1", "2", "3", "4">>
ResourceIds == {<<Digits[i]>> : i \in 1..MaxResources}
\* A title, a title to strip, another title, a blank title, no string at all.
RawTitles == {Str(<<"A">>), Str(<<" ", "A">>), Str(<<"B">>), Str(<<" ">>), NotStr}
\* find_result.resources: resource id -> resource object, the ids distinct.
ResourceMaps ==
    {r \in SeqsUpTo([id : ResourceIds, title : RawTitles], MaxResources) :
        \A i, j \in 1..Len(r) : r[i].id = r[j].id => i = j}
\* find_result.best_matches entries: "<resource id>", "<resource id>/<paragraph>",
\* or no string.
Matches ==
    {Str(<<"1">>), NotStr} \cup {Str(id \o <<"/", "p">>) : id \in ResourceIds}
\* The response shapes lines 137-148 and 158-159 tell apart.
ResponseShapes ==
    {[shape |-> "dict", resources |-> r, matches_is_list |-> TRUE, best_matches |-> m] :
        r \in ResourceMaps, m \in SeqsUpTo(Matches, MaxMatches)}
    \cup {[shape |-> "dict", resources |-> r, matches_is_list |-> FALSE, best_matches |-> <<>>] :
        r \in ResourceMaps}
    \cup {[shape |-> sh, resources |-> <<>>, matches_is_list |-> TRUE, best_matches |-> <<>>] :
        sh \in {"not_dict", "answer_not_dict", "find_result_not_dict", "resources_not_dict"}}
\* max_titles: None, 0 and positive limits.
MaxTitlesArgs == {<<>>, <<0>>, <<1>>, <<2>>}

\* match.split("/")[0]
RECURSIVE BeforeSlash(_)
BeforeSlash(s) ==
    IF s = <<>> \/ Head(s) = "/" THEN <<>> ELSE <<Head(s)>> \o BeforeSlash(Tail(s))

\* api_client.py:150-155: the stripped, non-empty string titles by resource id.
RECURSIVE IdToTitle(_)
IdToTitle(resources) ==
    IF resources = <<>> THEN <<>>
    ELSE LET r == Head(resources)
         IN  (IF r.title.t = "str" /\ strip(r.title.v) # <<>>
              THEN <<[id |-> r.id, title |-> strip(r.title.v)]>>
              ELSE <<>>) \o IdToTitle(Tail(resources))

\* id_to_title.get(resource_id): <<>> stands for None.
RECURSIVE Get(_, _)
Get(id_to_title, id) ==
    IF id_to_title = <<>> THEN <<>>
    ELSE IF Head(id_to_title).id = id THEN Head(id_to_title).title
    ELSE Get(Tail(id_to_title), id)

NeverSeen(title, ts) == FALSE
\* `title in titles`
Seen(title, ts) == \E k \in 1..Len(ts) : ts[k] = title

\* `max_titles and len(titles) >= max_titles`: None and 0 are falsy.
Full(ts, max) == max # <<>> /\ max[1] # 0 /\ Len(ts) >= max[1]

\* api_client.py:166-168 and 173-175: one candidate title of either loop.
TitleStep(acc, title, max) ==
    IF title # <<>> /\ ~Seen(title, acc.titles)
    THEN LET ts == Append(acc.titles, title)
         IN  [titles |-> ts, full |-> Full(ts, max)]
    ELSE acc

\* Either loop: it ends with its candidates or at the return/break on a full list.
RECURSIVE TitleLoop(_, _, _)
TitleLoop(acc, candidates, max) ==
    IF candidates = <<>> \/ acc.full THEN acc
    ELSE TitleLoop(TitleStep(acc, Head(candidates), max), Tail(candidates), max)

\* api_client.py:160-165: what each best_matches entry looks up (None when it
\* is no string or names no titled resource).
RECURSIVE MatchTitles(_, _)
MatchTitles(id_to_title, matches) ==
    IF matches = <<>> THEN <<>>
    ELSE <<IF Head(matches).t = "str"
           THEN Get(id_to_title, BeforeSlash(Head(matches).v))
           ELSE <<>>>> \o MatchTitles(id_to_title, Tail(matches))

RECURSIVE Values(_)
Values(id_to_title) ==
    IF id_to_title = <<>> THEN <<>>
    ELSE <<Head(id_to_title).title>> \o Values(Tail(id_to_title))

extract_source_titles(rj, max) ==
    IF rj.shape \in {"not_dict", "answer_not_dict", "find_result_not_dict"} THEN <<>>
    ELSE LET id_to_title == IdToTitle(rj.resources)
             none == [titles |-> <<>>, full |-> FALSE]
             best == IF rj.matches_is_list
                     THEN TitleLoop(none, MatchTitles(id_to_title, rj.best_matches), max)
                     ELSE none
         IN  IF best.full THEN best.titles
             ELSE TitleLoop([titles |-> best.titles, full |-> FALSE],
                            Values(id_to_title), max).titles

\* ---------------------------------------------------------- normalizer
\* telegram_bot.py:75-101, on texts as character sequences.
\* The backtick (a TLA+ string cannot hold one).
Tick == "'"
MinOf(S) == CHOOSE x \in S : \A y \in S : x <= y
Drop(s, n) == SubSeq(s, n + 1, Len(s))
IsSpace(c) == c \in {" ", NL}

\* _CODE_SNIPPET_RE (line 75) tried at position p of s: the last position of
\* the match, 0 when there is none. The fenced alternative is tried first,
\* `.*?` (DOTALL) running to the nearest closing fence; the inline
\* alternative runs to the next backtick.
SpanEndAt(s, p) ==
    IF s[p] # Tick THEN 0
    ELSE LET fence == p + 2 <= Len(s) /\ s[p + 1] = Tick /\ s[p + 2] = Tick
             closing == {q \in (p + 3)..(Len(s) - 2) :
                            s[q] = Tick /\ s[q + 1] = Tick /\ s[q + 2] = Tick}
             tick == {q \in (p + 1)..Len(s) : s[q] = Tick}
         IN  IF fence /\ closing # {} THEN MinOf(closing) + 2
             ELSE IF tick # {} THEN MinOf(tick)
             ELSE 0

\* re.sub(r"(?m)^(\s*)\* +", r"\1- ", segment) (line 83); bol: the text
\* stands at the start of a line.
RECURSIVE ListMarkers(_, _)
ListMarkers(s, bol) ==
    IF s = <<>> THEN <<>>
    ELSE LET ws == IF \E k \in 1..Len(s) : ~IsSpace(s[k])
                   THEN MinOf({k \in 1..Len(s) : ~IsSpace(s[k])}) - 1
                   ELSE Len(s)
             star == ws + 1
             sp == IF \E k \in (star + 1)..Len(s) : s[k] # " "
                   THEN MinOf({k \in (star + 1)..Len(s) : s[k] # " "}) - 1
                   ELSE Len(s)
         IN  IF bol /\ star <= Len(s) /\ s[star] = "*" /\ sp > star
             THEN SubSeq(s, 1, ws) \o <<"-", " ">> \o ListMarkers(Drop(s, sp), FALSE)
             ELSE <<Head(s)>> \o ListMarkers(Tail(s), Head(s) = NL)

\* re.sub(r"\*\*(.+?)\*\*", r"*\1*", segment) for d = "*" (line 85) and
\* re.sub(r"__(.+?)__", r"_\1_", segment) for d = "_" (line 87): `.+?` takes
\* the fewest characters of one line that let the closing pair follow.
RECURSIVE Emphasis(_, _)
Emphasis(s, d) ==
    IF s = <<>> THEN <<>>
    ELSE LET K == {k \in 1..(Len(s) - 4) :
                      /\ s[3 + k] = d
                      /\ s[4 + k] = d
                      /\ \A j \in 3..(2 + k) : s[j] # NL}
         IN  IF Len(s) >= 5 /\ s[1] = d /\ s[2] = d /\ K # {}
             THEN <<d>> \o SubSeq(s, 3, 2 + MinOf(K)) \o <<d>>
                  \o Emphasis(Drop(s, 4 + MinOf(K)), d)
             ELSE <<Head(s)>> \o Emphasis(Tail(s), d)

\* The three rewrites applied whatever the segment is.
NormalizeAll(code, v) == Emphasis(Emphasis(ListMarkers(v, TRUE), "*"), "_")
\* _normalize_segment (lines 81-88), applied to the text outside code spans.
_normalize_segment(code, v) ==
    IF code THEN v ELSE Emphasis(Emphasis(ListMarkers(v, TRUE), "*"), "_")

\* The finditer loop (lines 90-99): the prefixes, the code spans and the
\* remainder of a text, in order; empty prefixes and remainder left out.
RECURSIVE Segments(_)
Segments(s) ==
    LET starts == {p \in 1..Len(s) : SpanEndAt(s, p) # 0}
    IN  IF starts = {}
        THEN IF s = <<>> THEN <<>> ELSE <<[code |-> FALSE, v |-> s]>>
        ELSE LET p == MinOf(starts)
                 e == SpanEndAt(s, p)
             IN  (IF p > 1 THEN <<[code |-> FALSE, v |-> SubSeq(s, 1, p - 1)]>> ELSE <<>>)
                 \o <<[code |-> TRUE, v |-> SubSeq(s, p, e)]>>
                 \o Segments(Drop(s, e))

\* "".join(parts) (line 100)
RECURSIVE JoinSegments(_)
JoinSegments(segs) ==
    IF segs = <<>> THEN <<>>
    ELSE _normalize_segment(Head(segs).code, Head(segs).v) \o JoinSegments(Tail(segs))

_normalize_markdown_for_telegram(s) == JoinSegments(Segments(s))

\* The code spans the scan finds in a text, in order.
RECURSIVE CodeOf(_)
CodeOf(segs) ==
    IF segs = <<>> THEN <<>>
    ELSE (IF Head(segs).code THEN <<Head(segs).v>> ELSE <<>>) \o CodeOf(Tail(segs))
CodeSpans(s) == CodeOf(Segments(s))

\* The texts given to the normalizer: up to MaxTokens of these pieces.
Tokens == {<<"*">>, <<"*", "*">>, <<"_", "_">>, <<Tick>>, <<Tick, Tick, Tick>>,
           <<"*", " ">>, <<NL>>, <<"a">>}
RECURSIVE Flatten(_)
Flatten(ts) == IF ts = <<>> THEN <<>> ELSE Head(ts) \o Flatten(Tail(ts))
MarkdownTexts == {Flatten(ts) : ts \in SeqsUpTo(Tokens, MaxTokens)}

\* ----------------------------------------------------------------- Specs
\* The steps of the handlers, of their progress tasks and of /new, with every
\* outcome of the transport and of the chat channel.
Steps(maxInFlight, maxRequests) ==
    \/ \E t \in InboundTexts : receive_update(t, maxInFlight, maxRequests)
    \/ \E t \in InboundTexts : handle_message(t, maxInFlight, maxRequests)
    \/ \E s \in Slots, r \in Responses : ask_api_done(s, r)
    \/ \E s \in Slots, ok \in BOOLEAN : reply_error(s, ok)
    \/ \E s \in Slots, o \in {"ok", "BadRequest", "error"} : send_markdown(s, o)
    \/ \E s \in Slots, ok \in BOOLEAN : send_plain(s, ok)
    \/ \E s \in Slots, ok \in BOOLEAN : reply_generic(s, ok)
    \/ \E s \in Slots : await_typing_task(s)
    \/ \E s \in Slots : typing_indicator(s)
    \/ \E s \in Slots : typing_indicator_fails(s)
    \/ new_chat

\* One conversation under concurrent_updates(True) (telegram_bot.py:225):
\* up to MaxInFlight handlers of it in flight together.
Next == Steps(MaxInFlight, MaxRequests)
Spec == Init /\ [][Next]_vars

\* One conversation whose messages arrive one after the other: each handler
\* has returned before the next message is dispatched.
NextOne == Steps(1, MaxOneRequests)
SpecOne == Init /\ [][NextOne]_vars

\* A long conversation with a reliable chat channel: one handler at a time,
\* the transport answers or returns an HTTP error, every send is delivered.
NextSeq ==
    \/ receive_update(<<"q">>, 1, MaxSeqRequests)
    \/ handle_message(<<"q">>, 1, MaxSeqRequests)
    \/ \E s \in Slots, r \in {OkResp(<<5>>, <<>>), ErrorResp("500")} : ask_api_done(s, r)
    \/ \E s \in Slots : reply_error(s, TRUE)
    \/ \E s \in Slots : send_markdown(s, "ok")
    \/ \E s \in Slots : await_typing_task(s)
SpecSeq == Init /\ [][NextSeq]_vars

\* The chunker alone, called on every text and limit within the bounds.
ChunkInit ==
    /\ HInit
    /\ text \in SeqsUpTo(Chars, MaxTextLen)
    /\ limit \in 0..MaxLimit
    /\ parts = <<>>
    /\ split_pc = "called"
    /\ TIdle
    /\ NIdle

split_message_returns ==
    /\ split_pc = "called"
    /\ parts' = _split_message(text, limit)
    /\ split_pc' = "returned"
    /\ UNCHANGED <<text, limit, hvars, tvars, nvars>>

SpecChunk == ChunkInit /\ [][split_message_returns]_vars

\* extract_source_titles alone, called on every response and max_titles
\* within the bounds.
TitlesInit ==
    /\ HInit
    /\ CIdle
    /\ NIdle
    /\ response_json \in ResponseShapes
    /\ max_titles \in MaxTitlesArgs
    /\ titles = <<>>
    /\ titles_pc = "called"

source_titles_returns ==
    /\ titles_pc = "called"
    /\ titles' = extract_source_titles(response_json, max_titles)
    /\ titles_pc' = "returned"
    /\ UNCHANGED <<response_json, max_titles, hvars, cvars, nvars>>

SpecTitles == TitlesInit /\ [][source_titles_returns]_vars


\* The normalizer alone, called on every text within the bounds.
NormalizeInit ==
    /\ HInit
    /\ CIdle
    /\ TIdle
    /\ markdown \in MarkdownTexts
    /\ normalized = <<>>
    /\ normalize_pc = "called"

normalize_returns ==
    /\ normalize_pc = "called"
    /\ normalized' = _normalize_markdown_for_telegram(markdown)
    /\ normalize_pc' = "returned"
    /\ UNCHANGED <<markdown, hvars, cvars, tvars>>

SpecNormalize == NormalizeInit /\ [][normalize_returns]_vars

\* ================================================================ claims
Finished(s) == pc[s] \in {"returned", "raised"}
\* The handler has left the try block: only the await of its task remains.
Left(s) == pc[s] = "finally"
Stored == IF chat_data = 0 THEN <<>> ELSE lists[chat_data]
NoLineOver(s, n) == \A k \in DOMAIN split(s) : Len(split(s)[k]) <= n
HasNL(s) == \E k \in DOMAIN s : s[k] = NL
Friendly == [msg |-> FriendlyFailure, mode |-> "plain"]
Generic == [msg |-> GenericFailure, mode |-> "plain"]
AssistantTurnsOf(r) ==
    {<<o, k>> \in {<<o, k>> \in Objs \X (1..(max_messages + 2)) : k <= Len(lists[o])} :
        lists[o][k].role = "assistant" /\ lists[o][k].req = r}

\* C1: with no request of the conversation in flight, the stored history holds
\* at most 20 turns.
C1_HistoryBounded ==
    (\A s \in Slots : ~InFlight(s)) => Len(Stored) <= max_messages

\* C2: turn ordering is preserved under concurrent dispatch: a stored user
\* turn whose request has stored its assistant reply is directly followed by
\* that reply.
C2_TurnOrdering ==
    \A k \in DOMAIN Stored :
        (/\ Stored[k].role = "user"
         /\ \E j \in DOMAIN Stored :
                Stored[j].role = "assistant" /\ Stored[j].req = Stored[k].req)
        => /\ k < Len(Stored)
           /\ Stored[k + 1].role = "assistant"
           /\ Stored[k + 1].req = Stored[k].req

\* A handler that has returned or raised has a progress task that has ended.
C3_TaskEnded ==
    \A s \in Slots : Finished(s) => typing_task[s] \in {"cancelled", "failed"}
\* A progress signal is sent only for a handler still inside its try block.
C3_NoLateSignal ==
    \A s \in Slots : signals'[s] > signals[s] => InFlight(s) /\ ~Left(s)
\* C3: on every way out of the handler its progress task has been cancelled
\* and awaited: a handler that has returned or raised has a task that has
\* ended, and no progress signal is sent for a handler that has left.
C3_ProgressSignalCancelled == [](C3_TaskEnded) /\ [][C3_NoLateSignal]_vars
C3_Witness ==
    \E s \in Slots : pc[s] = "raised" /\ typing_task[s] = "cancelled"

\* C4: a text without newlines that is longer than the limit comes back as
\* exactly one segment, the whole text.
C4_SingleOversizedLine ==
    (split_pc = "returned" /\ ~HasNL(text) /\ Len(text) > limit) => parts = <<text>>

\* C5: when no line of the text is longer than the limit, the segments joined
\* with a newline are the text.
C5_JoinReconstructs ==
    (split_pc = "returned" /\ NoLineOver(text, limit)) => join(parts) = text
C5_Witness ==
    split_pc = "returned" /\ NoLineOver(text, limit) /\ Len(parts) >= 3

\* C6: a segment is at most the limit long, unless it is exactly one line of
\* the text and that line is longer than the limit.
C6_SegmentWithinLimit ==
    split_pc = "returned" =>
        \A g \in DOMAIN parts :
            \/ Len(parts[g]) <= limit
            \/ /\ ~HasNL(parts[g])
               /\ \E k \in DOMAIN split(text) : split(text)[k] = parts[g]
C6_Witness ==
    /\ split_pc = "returned"
    /\ \E g \in DOMAIN parts : Len(parts[g]) > limit
    /\ \E g \in DOMAIN parts : HasNL(parts[g]) /\ Len(parts[g]) = limit

\* C7 as stated: after a structured error the chat has received exactly one
\* message from the handler, the friendly-failure text, nothing was extracted
\* and no assistant turn of the request was appended.
C7_ErrorReply ==
    \A s \in Slots :
        (Left(s) /\ resp[s].kind = "error") =>
            /\ sent[s] = <<Friendly>>
            /\ normalized_answer[s] = <<>>
            /\ AssistantTurnsOf(req[s]) = {}

\* C7 amended: after a structured error nothing was extracted, no assistant
\* turn of the request was appended, and the chat has received at most one
\* message from the handler: the friendly-failure text or, when that send
\* failed, the generic failure text; it received none only when the generic
\* send failed too, and then the exception propagates.
C7_ErrorReplyAmended ==
    \A s \in Slots :
        (Left(s) /\ resp[s].kind = "error") =>
            /\ sent[s] \in {<<Friendly>>, <<Generic>>, <<>>}
            /\ (sent[s] = <<>>) = exc[s]
            /\ normalized_answer[s] = <<>>
            /\ chunks[s] = <<>>
            /\ AssistantTurnsOf(req[s]) = {}
C7_Witness ==
    \E s \in Slots :
        Left(s) /\ resp[s] = ErrorResp("timeout") /\ sent[s] = <<Friendly>>

\* C8: after a structured error the stored history holds the request's user
\* turn, whatever the conversation's state was.
C8_UserTurnStored ==
    \A s \in Slots :
        (Left(s) /\ resp[s].kind = "error") =>
            \E k \in DOMAIN Stored : Stored[k] = UserTurn(req[s], user_text[s])

\* The step in which handler s, having sent its last chunk, stores the history.
C9_Saves(s) == pc[s] \in {"send_markdown", "send_plain"} /\ pc'[s] = "finally"
\* C9: when a handler that sent all its chunks stores the history, the stored
\* history is the last 20 turns of: the history before the request, the user
\* turn, the assistant turn holding the first 4000 characters of the text sent.
C9_StoredAfterSuccess ==
    [][\A s \in Slots :
          C9_Saves(s) =>
              lists'[chat_data'] =
                  LastN(before[s] \o
                        <<UserTurn(req[s], user_text[s]),
                          AssistantTurn(req[s], Prefix(normalized_answer[s], AssistantCap))>>,
                        max_messages)]_vars

\* Handler s has left the try block through the except clause after the
\* transport had returned.
EmitFailed(s) ==
    /\ Left(s)
    /\ resp[s].kind \in {"ok", "error"}
    /\ (exc[s] \/ (sent[s] # <<>> /\ sent[s][Len(sent[s])] = Generic))
\* C10: a failure while formatting or emitting makes the handler send the
\* generic failure text exactly once and leave without an exception.
C10_GenericFailureOnce ==
    \A s \in Slots :
        EmitFailed(s) =>
            /\ ~exc[s]
            /\ Cardinality({k \in DOMAIN sent[s] : sent[s][k] = Generic}) = 1

\* Titles a best_matches entry of the response refers to.
Referenced ==
    IF response_json.shape = "dict" /\ response_json.matches_is_list
    THEN {t \in {Get(IdToTitle(response_json.resources), BeforeSlash(m.v)) :
                    m \in {response_json.best_matches[k] :
                             k \in 1..Len(response_json.best_matches)}} : t # <<>>}
    ELSE {}

\* C11: extract_source_titles never returns more titles than the requested
\* maximum, for every requested maximum (0 included) and every response shape.
C11_AtMostMaxTitles ==
    (titles_pc = "returned" /\ max_titles # <<>>) => Len(titles) <= max_titles[1]

\* C12: the returned list holds no title twice, and every title a
\* best_matches entry refers to stands before every title only the
\* fallback over the resources reaches.
C12_DistinctBestFirst ==
    titles_pc = "returned" =>
        /\ \A i, j \in 1..Len(titles) : titles[i] = titles[j] => i = j
        /\ \A i, j \in 1..Len(titles) :
               (i < j /\ titles[j] \in Referenced) => titles[i] \in Referenced
\* The list holds a title a best_matches entry refers to and then a title
\* of the fallback, though the resources list them the other way round.
C12_Witness ==
    /\ titles_pc = "returned"
    /\ Len(titles) = 2
    /\ titles[1] \in Referenced
    /\ titles[2] \notin Referenced
    /\ Values(IdToTitle(response_json.resources)) = <<titles[2], titles[1]>>

\* C13: the normalizer is idempotent: normalizing its output again changes
\* nothing.
C13_Idempotent ==
    normalize_pc = "returned" =>
        _normalize_markdown_for_telegram(normalized) = normalized

\* C14: every fenced or inline code span the scan finds in the input stands
\* in the output character for character, delimiters included, in the same
\* order: the rewrites touch only the text outside the spans.
C14_CodeSpansVerbatim ==
    normalize_pc = "returned" => CodeSpans(normalized) = CodeSpans(markdown)
\* A code span holding a list marker the rewrite would change outside.
C14_Witness ==
    /\ normalize_pc = "returned"
    /\ \E k \in 1..Len(CodeSpans(markdown)) :
           NormalizeAll(FALSE, CodeSpans(markdown)[k]) # CodeSpans(markdown)[k]

\* The turns of a sequence, as a set.
TurnsOf(h) == {h[k] : k \in DOMAIN h}
\* C15: a reset clears the stored history, and once a reset has been
\* processed no turn stored before it is part of the history again: a later
\* step brings into the stored history no turn but turns of a request still
\* in flight (in SpecOne every other turn absent from the history was stored
\* before the reset and cleared by it).
C15_ResetClears ==
    [][/\ nresets' # nresets => Stored' = <<>>
       /\ (nresets > 0 /\ nresets' = nresets) =>
              \A turn \in TurnsOf(Stored') \ TurnsOf(Stored) :
                  \E s \in Slots : InFlight(s)' /\ req'[s] = turn.req]_vars

\* The k-th message a handler delivered for a successful response is its
\* k-th chunk.
C16_InChunkerOrder ==
    \A s \in Slots : \A k \in DOMAIN sent[s] :
        sent[s][k].msg.kind = "chunk" =>
            k <= Len(chunks[s]) /\ sent[s][k].msg.lens = chunks[s][k]
\* A plain-text send is attempted only for the chunk whose Markdown send was
\* just rejected; after it the handler goes on to the next chunk with a
\* Markdown attempt (or ends, or fails); a Markdown delivery is followed by
\* the Markdown attempt of the next chunk.
C16_PlainOnlyAfterRejection ==
    \A s \in Slots :
        /\ (pc'[s] = "send_plain" /\ (pc[s] # "send_plain" \/ idx'[s] # idx[s])) =>
               pc[s] = "send_markdown" /\ idx'[s] = idx[s] /\ sent'[s] = sent[s]
        /\ (pc[s] = "send_plain" /\ pc'[s] # "send_plain") =>
               \/ pc'[s] = "except" /\ sent'[s] = sent[s]
               \/ /\ sent'[s] = Append(sent[s], [msg |-> ChunkMsg(s), mode |-> "plain"])
                  /\ \/ pc'[s] = "send_markdown" /\ idx'[s] = idx[s] + 1
                     \/ pc'[s] = "finally" /\ idx[s] = Len(chunks[s])
        /\ (pc[s] = "send_markdown" /\ pc'[s] = "send_markdown" /\ idx'[s] # idx[s]) =>
               /\ idx'[s] = idx[s] + 1
               /\ sent'[s] = Append(sent[s], [msg |-> ChunkMsg(s), mode |-> "markdown"])
\* C16: segments are emitted in chunker order; a segment whose Markdown
\* delivery is rejected is sent again once as plain text before the next
\* segment is attempted, and every segment is first attempted as Markdown,
\* however the segments before it were sent.
C16_SegmentDelivery == [](C16_InChunkerOrder) /\ [][C16_PlainOnlyAfterRejection]_vars
\* The first segment was rejected and re-sent as plain text, the second was
\* delivered as Markdown.
C16_Witness ==
    \E s \in Slots :
        /\ Len(sent[s]) = 2
        /\ sent[s][1] = [msg |-> [kind |-> "chunk", lens |-> chunks[s][1]], mode |-> "plain"]
        /\ sent[s][2] = [msg |-> [kind |-> "chunk", lens |-> chunks[s][2]], mode |-> "markdown"]

\* C17: for a successful response with no extractable answer, every segment
\* emitted and the assistant turn stored hold exactly the fixed "couldn't
\* find an answer" text, whatever titles the response carries.
C17_NoAnswerTextOnly ==
    \A s \in Slots :
        (resp[s].kind = "ok" /\ resp[s].answer = <<>>) =>
            /\ \A k \in DOMAIN sent[s] :
                   sent[s][k].msg.kind = "chunk" => sent[s][k].msg.lens = NoAnswerText
            /\ \A ok \in AssistantTurnsOf(req[s]) :
                   lists[ok[1]][ok[2]].content = NoAnswerText

\* C18: a message with a non-empty text causes exactly one request to the
\* API, whatever comes back and however the sends go (none is posted again
\* after an error, a timeout or a rejected delivery), and a handler
\* delivers at most one message per segment and one failure text.
C18_OneTransportCall ==
    \A s \in Slots :
        InFlight(s) =>
            /\ calls[s] = (IF pc[s] = "ask_api" THEN 0 ELSE 1)
            /\ Len(sent[s]) <= Len(chunks[s]) + 1
\* A handler has left after a timeout of the transport, one request posted.
C18_Witness ==
    \E s \in Slots :
        Left(s) /\ resp[s].kind = "error" /\ resp[s].status = "timeout" /\ calls[s] = 1

\* A text of spaces only (the empty text included).
Blank(t) == \A k \in DOMAIN t : t[k] = " "
\* C19: a message whose text is missing or empty after trimming is ignored:
\* handling it starts no handler and no progress task, posts nothing to the
\* API, sends nothing to the chat and leaves every history list as it was.
C19_BlankIgnored ==
    [][(update # <<>> /\ update' = <<>> /\ Blank(update[1])) =>
           UNCHANGED <<chat_data, lists, history, pc, typing_task, signals, calls, sent,
                       req, user_text, resp>>]_vars
\* One message has been handled and no handler has ever started.
C19_Witness ==
    nreq = 1 /\ update = <<>> /\ \A s \in Slots : pc[s] = "idle"

\* C20: for a non-empty text, no segment the chunker returns is empty.
C20_NoEmptySegment ==
    (split_pc = "returned" /\ text # <<>>) => \A g \in DOMAIN parts : parts[g] # <<>>

====
